---------------------------- MODULE Spec2Model ----------------------------
(***************************************************************************)
(* Store (DataService) and Query Engine (ProductService) of the product    *)
(* catalogue: the JSON file and its backup, the read cache with its        *)
(* expiry, and the load / mutate / persist cycle of every operation.       *)
(*                                                                         *)
(* Execution model.  Node runs one callback at a time.  An async function  *)
(* gives up control for good only at a storage call (fs.access,            *)
(* fs.readFile, fs.copyFile, fs.writeFile); the code between two storage   *)
(* calls runs to completion.  A step of a process is therefore one storage *)
(* call together with the synchronous code that follows it.  fs.access is  *)
(* folded into the call it guards: no operation ever removes a file, so    *)
(* the answer of access still holds when the guarded call runs.  The clock *)
(* (Date.now) may advance before every step that reads it, also between    *)
(* two getAllProducts calls of one run-to-completion block, which is why   *)
(* every getAllProducts call is a position of its own ("load") at which    *)
(* only the clock and the process itself may move.                         *)
(*                                                                         *)
(* Faults.  fs.writeFile on the data file may fail outright (the file is   *)
(* left as it was), and the process may die in the middle of that write,   *)
(* leaving a strict prefix of the document behind.                         *)
(***************************************************************************)
EXTENDS Integers, Sequences, FiniteSets, TLC

(***************************************************************************)
(* Bounds of the model.                                                    *)
(***************************************************************************)
MaxOps    == 3      \* requests in one behaviour, one at a time
MaxConcurrent == 2  \* requests in one behaviour, two at a time
MaxTicks  == 2      \* clock advances in one behaviour
MaxFaults == 1      \* failed writes and process deaths in one behaviour
MaxEdits  == 2      \* catalogue requests in one behaviour
MaxQueries == 2     \* searches and statistics requests in one behaviour
MaxAdjusts == 2     \* stock adjustments in one behaviour, two at a time
MaxRequests == 2    \* HTTP requests in one behaviour

Procs == {1, 2}     \* requests in flight at the same time

(***************************************************************************)
(* Time.  Timestamps are milliseconds; an ISO 8601 string is modelled by   *)
(* the instant it denotes.                                                 *)
(***************************************************************************)
cacheTimeout == 5 * 60 * 1000
TickMs       == cacheTimeout \div 2
StartTime    == 4 * cacheTimeout

(***************************************************************************)
(* Products.  The names of the model are "a", "A", "b", "B" and "c"; the   *)
(* descriptions, tags, categories and search texts add "d", "t", "x", "X", *)
(* "y", "z", "ab", "Ab", "AB", "BA" and "constructor".  toLowerCase and   *)
(* the letters of a string are given for these.  Prices are in hundredths  *)
(* (999999.99 is 99999999).                                                *)
(***************************************************************************)
toLowerCase(s) ==
    CASE s = "A" -> "a" [] s = "B" -> "b" [] s = "X" -> "x"
      [] s = "Ab" -> "ab" [] s = "AB" -> "ab" [] s = "BA" -> "ba"
      [] OTHER -> s

\* The characters of a string of the model ("constructor" has no letter
\* of the other strings and is kept whole).
Chars(s) ==
    CASE s = "" -> <<>>
      [] s = "ab" -> <<"a", "b">>
      [] s = "Ab" -> <<"A", "b">>
      [] s = "AB" -> <<"A", "B">>
      [] s = "ba" -> <<"b", "a">>
      [] s = "BA" -> <<"B", "A">>
      [] OTHER -> <<s>>

\* A test for a common prefix instead of a substring (startsWith).
startsWith(s, t) ==
    /\ Len(Chars(t)) <= Len(Chars(s))
    /\ SubSeq(Chars(s), 1, Len(Chars(t))) = Chars(t)

\* String.prototype.includes
includes(s, t) ==
    \E i \in 0..(Len(Chars(s)) - Len(Chars(t))) :
        SubSeq(Chars(s), i + 1, i + Len(Chars(t))) = Chars(t)

Record(i, n, d, pr, cat, s, act, tg, c, u) ==
    [id |-> i, name |-> n, description |-> d, price |-> pr, category |-> cat,
     stock |-> s, isActive |-> act, tags |-> tg, createdAt |-> c,
     updatedAt |-> u]

\* A record with the description, the price, the category, the flag and the
\* tags most records of the model have.
Product(i, n, s, c, u) == Record(i, n, "d", 1000, "x", s, TRUE, <<>>, c, u)

(***************************************************************************)
(* JSON.  A document is a sequence of tokens: the brackets of the array,   *)
(* the braces of each object and one token per member (its key with its    *)
(* value).  JSON.stringify writes the members of an object in the order of *)
(* its keys and the objects in the order of the array; JSON.parse accepts  *)
(* exactly the documents that are one complete array of complete objects   *)
(* and throws on everything else, a truncated document included.           *)
(***************************************************************************)
Token(kind, k, str, num, bool, list) ==
    [kind |-> kind, key |-> k, str |-> str, num |-> num, bool |-> bool,
     list |-> list]

Punct(c)      == Token("punct", c, "", 0, FALSE, <<>>)
StrTok(k, v)  == Token("str", k, v, 0, FALSE, <<>>)
NumTok(k, v)  == Token("num", k, "", v, FALSE, <<>>)
BoolTok(k, v) == Token("bool", k, "", 0, v, <<>>)
ListTok(k, v) == Token("list", k, "", 0, FALSE, v)

StringifyProduct(p) ==
    << Punct("{"),
       NumTok("id", p.id),
       StrTok("name", p.name),
       StrTok("description", p.description),
       NumTok("price", p.price),
       StrTok("category", p.category),
       NumTok("stock", p.stock),
       BoolTok("isActive", p.isActive),
       ListTok("tags", p.tags),
       NumTok("createdAt", p.createdAt),
       NumTok("updatedAt", p.updatedAt),
       Punct("}") >>

\* A serializer that stops after the first object.
StringifyFirst(products) ==
    IF products = <<>> THEN <<>> ELSE StringifyProduct(Head(products))

RECURSIVE StringifyItems(_)
StringifyItems(products) ==
    IF products = <<>> THEN <<>>
    ELSE StringifyProduct(Head(products)) \o StringifyItems(Tail(products))

\* A serializer that writes the array back to front.
JSONstringifyReversed(products) ==
    <<Punct("[")>>
        \o StringifyItems([i \in 1..Len(products) |->
                              products[Len(products) + 1 - i]])
        \o <<Punct("]")>>

JSONstringify(products) ==
    <<Punct("[")>> \o StringifyItems(products) \o <<Punct("]")>>

ParseFail == [ok |-> FALSE, value |-> <<>>]

\* The position of the brace that closes the object opened at i, 0 if none.
ObjectEnd(doc, i) ==
    LET ends == {j \in (i + 1)..Len(doc) : doc[j] = Punct("}")}
    IN  IF ends = {} THEN 0
        ELSE CHOOSE j \in ends : \A k \in ends : j <= k

Member(doc, a, b, k) == doc[CHOOSE n \in a..b : doc[n].key = k]

ParseObject(doc, a, b) ==
    Record(Member(doc, a, b, "id").num,
           Member(doc, a, b, "name").str,
           Member(doc, a, b, "description").str,
           Member(doc, a, b, "price").num,
           Member(doc, a, b, "category").str,
           Member(doc, a, b, "stock").num,
           Member(doc, a, b, "isActive").bool,
           Member(doc, a, b, "tags").list,
           Member(doc, a, b, "createdAt").num,
           Member(doc, a, b, "updatedAt").num)

RECURSIVE ParseArray(_, _, _)
ParseArray(doc, i, acc) ==
    IF i > Len(doc) THEN ParseFail
    ELSE IF doc[i] = Punct("]")
         THEN IF i = Len(doc) THEN [ok |-> TRUE, value |-> acc] ELSE ParseFail
    ELSE IF doc[i] = Punct("{")
         THEN LET j == ObjectEnd(doc, i)
              IN  IF j = 0 THEN ParseFail
                  ELSE ParseArray(doc, j + 1,
                                  Append(acc, ParseObject(doc, i + 1, j - 1)))
    ELSE ParseFail

JSONparse(doc) ==
    IF doc = <<>> \/ doc[1] # Punct("[") THEN ParseFail
    ELSE ParseArray(doc, 2, <<>>)

(***************************************************************************)
(* Files.  A file either does not exist or holds a document.               *)
(***************************************************************************)
NoFile     == [exists |-> FALSE, text |-> <<>>]
FileOf(doc) == [exists |-> TRUE, text |-> doc]

\* What a write that dies half way leaves of the document: a strict prefix
\* (the file is truncated when it is opened, then filled).
PartialWrites(doc) == {SubSeq(doc, 1, n) : n \in {0, Len(doc) - 1}}

Parseable(f) == f.exists /\ JSONparse(f.text).ok
Content(f) == JSONparse(f.text).value


(***************************************************************************)
(* Array.prototype.sort: stable, in place, by the comparator of            *)
(* searchProducts.  localeCompare orders the names of the model            *)
(* a < A < ab < b < B < c.                                                 *)
(***************************************************************************)
localeCompare(a, b) ==
    LET rank(s) == CASE s = "a" -> 1 [] s = "A" -> 2 [] s = "ab" -> 3
                     [] s = "b" -> 4 [] s = "B" -> 5 [] OTHER -> 6
    IN  rank(a) - rank(b)

comparison(a, b, sortBy, sortOrder) ==
    LET c == CASE sortBy = "name"      -> localeCompare(a.name, b.name)
               [] sortBy = "price"     -> a.price - b.price
               [] sortBy = "createdAt" -> a.createdAt - b.createdAt
               [] OTHER                -> 0
    IN  IF sortOrder = "desc" THEN 0 - c ELSE c

\* x goes behind the last element that does not come after it.
InsertSorted(sorted, x, sortBy, sortOrder) ==
    LET keep == {i \in 1..Len(sorted) :
                    comparison(sorted[i], x, sortBy, sortOrder) <= 0}
        k    == IF keep = {} THEN 0
                ELSE CHOOSE i \in keep : \A j \in keep : j <= i
    IN  SubSeq(sorted, 1, k) \o <<x>> \o SubSeq(sorted, k + 1, Len(sorted))

RECURSIVE SortFrom(_, _, _, _)
SortFrom(sorted, rest, sortBy, sortOrder) ==
    IF rest = <<>> THEN sorted
    ELSE SortFrom(InsertSorted(sorted, Head(rest), sortBy, sortOrder),
                  Tail(rest), sortBy, sortOrder)

sort(products, sortBy, sortOrder) == SortFrom(<<>>, products, sortBy, sortOrder)

(***************************************************************************)
(* DataService.getStatistics.  `categories` is a plain object: reading a   *)
(* key it does not own gives what Object.prototype has under that key      *)
(* (of the categories of the model, "constructor": the function Object),   *)
(* undefined otherwise.  `(v || 0) + 1` adds one to a number and to        *)
(* undefined taken as 0, and appends "1" to the text of anything else.     *)
(* A value is a number or a string, the string given by its pieces.        *)
(***************************************************************************)
Number(n)   == [type |-> "number", number |-> n, string |-> <<>>]
String(str) == [type |-> "string", number |-> 0, string |-> str]
Undefined   == [type |-> "undefined", number |-> 0, string |-> <<>>]
Function(str) == [type |-> "function", number |-> 0, string |-> str]

ObjectPrototype == {"constructor"}

get(obj, k) ==
    IF k \in DOMAIN obj THEN obj[k]
    ELSE IF k \in ObjectPrototype
         THEN Function(<<"function Object() { [native code] }">>)
         ELSE Undefined

orZeroPlusOne(v) ==
    CASE v.type = "number"    -> Number(v.number + 1)
      [] v.type = "undefined" -> Number(1)
      [] OTHER                -> String(Append(v.string, "1"))

RECURSIVE countCategories(_, _)
countCategories(obj, arr) ==
    IF arr = <<>> THEN obj
    ELSE LET k == Head(arr).category
         IN  countCategories(
                 [x \in DOMAIN obj \cup {k} |->
                     IF x = k THEN orZeroPlusOne(get(obj, k)) ELSE obj[x]],
                 Tail(arr))

RECURSIVE reduce(_, _)
reduce(arr, sum) ==
    IF arr = <<>> THEN sum ELSE reduce(Tail(arr), sum + Head(arr).price)

\* Math.round of the quotient a / b of two naturals: halves go up.
MathRound(a, b) == (2 * a + b) \div (2 * b)

NoCategories == [x \in {} |-> Undefined]

NoStats ==
    [total |-> 0, active |-> 0, inactive |-> 0, categories |-> NoCategories,
     averagePrice |-> 0]

getStatistics(arr) ==
    [total |-> Len(arr),
     active |-> Len(SelectSeq(arr, LAMBDA prod : prod.isActive)),
     inactive |-> Len(SelectSeq(arr, LAMBDA prod : ~prod.isActive)),
     categories |-> countCategories(NoCategories, arr),
     averagePrice |-> IF Len(arr) > 0 THEN MathRound(reduce(arr, 0), Len(arr))
                      ELSE 0]

\* ProductService.getProductStatistics: lowStockProducts
lowStockProducts(allProducts) ==
    SelectSeq(allProducts, LAMBDA prod : prod.stock < 10 /\ prod.isActive)

(***************************************************************************)
(* The state.                                                              *)
(***************************************************************************)
VARIABLES
    dataFile,        \* the file at dataPath
    backupFile,      \* the file at backupPath
    cache,           \* DataService.cache: null, or the cached array
    cacheTimestamp,  \* DataService.cacheTimestamp
    now,             \* Date.now()
    nextId,          \* the next id randomUUID hands out
    pc,              \* where each request stands
    op,              \* the call each request serves
    cont,            \* the call site its getAllProducts returns to
    products,        \* its local array `products`
    aliased,         \* whether that array is the very array the cache holds
    wmode,           \* who called its writeToFile: the operation, recovery, init
    product,         \* its local `product` / `updatedProduct`
    ret,             \* what it returned
    outcome,         \* "ok", or the ApiError it threw
    updates,         \* its `updates`, the argument of updateProduct
    total,           \* the `total` its searchProducts returned
    stats,           \* its `stats`, what getStatistics returned
    loaded,          \* history: the array its last getAllProducts returned,
                     \*          as it was returned
    src,             \* history: where its last getAllProducts took the array from
    found,           \* history: what its last readFromFile found on disk
    persisted,       \* history: the array and the time of the last writeToFile
                     \*          of this process that completed
    crashed,         \* history: what the data file held before the write that
                     \*          died, until the first request after the restart
    ops,             \* requests so far
    ticks,           \* clock advances so far
    faults           \* failed writes and process deaths so far

disk    == <<dataFile, backupFile>>
store   == <<cache, cacheTimestamp>>
locals  == <<cont, products, aliased, wmode, product, ret, outcome, updates,
             total, stats>>
history == <<src, found, persisted, crashed, loaded>>
budget  == <<ops, ticks, faults>>
vars    == <<disk, store, now, nextId, pc, op, locals, history, budget>>

Null       == [set |-> FALSE, items |-> <<>>]
Cached(a)  == [set |-> TRUE, items |-> a]
NoProduct  == Product(0, "", 0, 0, 0)
NoCall     == [name |-> "none"]
NoUpdates  == [none |-> TRUE]
Nothing    == [case |-> "none", items |-> <<>>]
Found(c, a) == [case |-> c, items |-> a]
NoWrite    == [set |-> FALSE, items |-> <<>>, at |-> 0]
Written(a, t) == [set |-> TRUE, items |-> a, at |-> t]

(***************************************************************************)
(* The disk a process can find when it starts: nothing (the first run),    *)
(* a collection with the previous generation as its backup, or the data    *)
(* file a dying write left behind, with the backup that write made.        *)
(***************************************************************************)
SeedTime == cacheTimeout
Seed1 == <<Product(1, "b", 5, SeedTime, SeedTime)>>
Seed2 == Seed1 \o <<Product(2, "a", 5, SeedTime + TickMs, SeedTime + TickMs)>>
FirstId == 3

Torn(doc) == SubSeq(doc, 1, Len(doc) - 1)

FirstRun  == <<NoFile, NoFile>>
Running   == <<FileOf(JSONstringify(Seed2)), FileOf(JSONstringify(Seed1))>>
Restarted == <<FileOf(Torn(JSONstringify(Seed2))), FileOf(JSONstringify(Seed1))>>
InitDisks == {FirstRun, Running, Restarted}

Boot(disks) ==
    /\ \E d \in disks :
          /\ dataFile = d[1]
          /\ backupFile = d[2]
          /\ crashed = IF d = Restarted THEN Cached(Seed1) ELSE Null
    /\ persisted = NoWrite
    /\ cache = Null
    /\ cacheTimestamp = 0
    /\ now = StartTime
    /\ nextId = FirstId
    /\ pc = [p \in Procs |-> "idle"]
    /\ op = [p \in Procs |-> NoCall]
    /\ cont = [p \in Procs |-> "none"]
    /\ products = [p \in Procs |-> <<>>]
    /\ aliased = [p \in Procs |-> FALSE]
    /\ wmode = [p \in Procs |-> "none"]
    /\ product = [p \in Procs |-> NoProduct]
    /\ ret = [p \in Procs |-> <<>>]
    /\ outcome = [p \in Procs |-> "none"]
    /\ updates = [p \in Procs |-> NoUpdates]
    /\ total = [p \in Procs |-> 0]
    /\ stats = [p \in Procs |-> NoStats]
    /\ loaded = [p \in Procs |-> <<>>]
    /\ src = [p \in Procs |-> "none"]
    /\ found = [p \in Procs |-> Nothing]
    /\ ops = 0
    /\ ticks = 0
    /\ faults = 0

Init == Boot(InitDisks)

(***************************************************************************)
(* DataService.isCacheValid                                                *)
(***************************************************************************)
\* A cache that is still served at the age of cacheTimeout.
isCacheValidInclusive == cache.set /\ (now - cacheTimestamp) <= cacheTimeout

isCacheValid == cache.set /\ (now - cacheTimestamp) < cacheTimeout

(***************************************************************************)
(* DataService.initializeEmptyData: the array it writes and returns.       *)
(***************************************************************************)
\* A fallback that is not empty.
initializeSeedData == Seed1

initializeEmptyData == <<>>

(***************************************************************************)
(* The backup after the first half of writeToFile: a copy of the data      *)
(* file if there is one (fs.access, fs.copyFile), else what it was.        *)
(***************************************************************************)
\* A writeToFile that never copies.
backupKept(data, backup) == backup

backupAfterCopy(data, backup) == IF data.exists THEN data ELSE backup

(***************************************************************************)
(* ProductService.validateProductName, validateProductPrice,               *)
(* validateProductStock.  excludeId is 0 where the code passes undefined:  *)
(* no record has that id.  Stocks and quantities of the model are          *)
(* integers.                                                               *)
(***************************************************************************)
MaxPrice == 99999999

\* A name check that does not leave out the record being updated.
duplicateNameAnyRecord(allProducts, name, excludeId) ==
    \E i \in 1..Len(allProducts) :
        toLowerCase(allProducts[i].name) = toLowerCase(name)

duplicateName(allProducts, name, excludeId) ==
    \E i \in 1..Len(allProducts) :
        /\ toLowerCase(allProducts[i].name) = toLowerCase(name)
        /\ allProducts[i].id # excludeId

\* A price check without the upper bound.
validateProductPriceUnbounded(price) == price > 0

validateProductPrice(price) == price > 0 /\ price <= MaxPrice

validateProductStock(stock) == stock >= 0

\* The checks of createProduct and updateProduct on the fields present.
validFields(data) ==
    /\ "price" \in DOMAIN data => validateProductPrice(data.price)
    /\ "stock" \in DOMAIN data => validateProductStock(data.stock)

\* A search that stops at the first record, whatever its id.
findIndexFirst(arr, id) == IF arr = <<>> THEN 0 ELSE 1

findIndex(arr, id) ==
    LET hits == {i \in 1..Len(arr) : arr[i].id = id}
    IN  IF hits = {} THEN 0 ELSE CHOOSE i \in hits : \A j \in hits : i <= j

\* A record whose createdAt is read from the clock after its updatedAt.
newProductStampedTwice(id, productData, t) ==
    Record(id, productData.name, productData.description, productData.price,
           productData.category, productData.stock,
           IF "isActive" \in DOMAIN productData THEN productData.isActive
           ELSE TRUE,
           IF "tags" \in DOMAIN productData THEN productData.tags ELSE <<>>,
           t + 1, t)

\* { id: randomUUID(), ...productData, isActive: productData.isActive ?? true,
\*   tags: productData.tags ?? [], createdAt: now, updatedAt: now }
newProduct(id, productData, t) ==
    Record(id, productData.name, productData.description, productData.price,
           productData.category, productData.stock,
           IF "isActive" \in DOMAIN productData THEN productData.isActive
           ELSE TRUE,
           IF "tags" \in DOMAIN productData THEN productData.tags ELSE <<>>,
           t, t)

\* A merge that stamps createdAt as well.
mergeRestamped(old, upd, id, t) ==
    [old EXCEPT
        !.id = id,
        !.name = IF "name" \in DOMAIN upd THEN upd.name ELSE @,
        !.description = IF "description" \in DOMAIN upd THEN upd.description
                        ELSE @,
        !.price = IF "price" \in DOMAIN upd THEN upd.price ELSE @,
        !.category = IF "category" \in DOMAIN upd THEN upd.category ELSE @,
        !.stock = IF "stock" \in DOMAIN upd THEN upd.stock ELSE @,
        !.isActive = IF "isActive" \in DOMAIN upd THEN upd.isActive ELSE @,
        !.tags = IF "tags" \in DOMAIN upd THEN upd.tags ELSE @,
        !.createdAt = t,
        !.updatedAt = t]

\* { ...products[productIndex], ...updates, id, updatedAt: new Date() }
merge(old, upd, id, t) ==
    [old EXCEPT
        !.id = id,
        !.name = IF "name" \in DOMAIN upd THEN upd.name ELSE @,
        !.description = IF "description" \in DOMAIN upd THEN upd.description
                        ELSE @,
        !.price = IF "price" \in DOMAIN upd THEN upd.price ELSE @,
        !.category = IF "category" \in DOMAIN upd THEN upd.category ELSE @,
        !.stock = IF "stock" \in DOMAIN upd THEN upd.stock ELSE @,
        !.isActive = IF "isActive" \in DOMAIN upd THEN upd.isActive ELSE @,
        !.tags = IF "tags" \in DOMAIN upd THEN upd.tags ELSE @,
        !.updatedAt = t]

\* A push at the front.
unshift(arr, x) == <<x>> \o arr

\* products.push(product)
push(arr, x) == Append(arr, x)

\* A removal of the last element, whatever the index (products.pop()).
pop(arr, i) == SubSeq(arr, 1, Len(arr) - 1)

\* products.splice(productIndex, 1)
splice(arr, i) == SubSeq(arr, 1, i - 1) \o SubSeq(arr, i + 1, Len(arr))

\* ProductService.updateProductStock: newStock
newStock(stock, quantity, operation) ==
    IF operation = "add" THEN stock + quantity ELSE stock - quantity

(***************************************************************************)
(* DataService.searchProducts after its getAllProducts.  A filter that is  *)
(* given (a truthy string, an isActive that is not undefined) replaces     *)
(* `products` by a new array; sort works in place on whatever `products`   *)
(* is by then; slice makes a new array.  The result names what is          *)
(* returned and what has become of the array getAllProducts returned.     *)
(***************************************************************************)
GivenText(filters, k) == k \in DOMAIN filters /\ filters[k] # ""

GivenNumber(filters, k) == k \in DOMAIN filters /\ filters[k] # 0

matchesSearch(prod, searchLower) ==
    \/ includes(toLowerCase(prod.name), searchLower)
    \/ includes(toLowerCase(prod.description), searchLower)
    \/ \E i \in 1..Len(prod.tags) :
          includes(toLowerCase(prod.tags[i]), searchLower)

\* A slice that starts one element late.
sliceFromNext(arr, start, end) ==
    SubSeq(arr, start + 2, IF end < Len(arr) THEN end ELSE Len(arr))

\* Array.prototype.slice(start, end), 0 <= start <= end
slice(arr, start, end) ==
    SubSeq(arr, start + 1, IF end < Len(arr) THEN end ELSE Len(arr))

searchProducts(arr, filters) ==
    LET bySearch ==
            IF GivenText(filters, "search")
            THEN SelectSeq(arr, LAMBDA prod :
                     matchesSearch(prod, toLowerCase(filters.search)))
            ELSE arr
        byCategory ==
            IF GivenText(filters, "category")
            THEN SelectSeq(bySearch, LAMBDA prod :
                     toLowerCase(prod.category)
                        = toLowerCase(filters.category))
            ELSE bySearch
        byActive ==
            IF "isActive" \in DOMAIN filters
            THEN SelectSeq(byCategory, LAMBDA prod :
                     prod.isActive = filters.isActive)
            ELSE byCategory
        filtered ==
            \/ GivenText(filters, "search")
            \/ GivenText(filters, "category")
            \/ "isActive" \in DOMAIN filters
        sorted ==
            IF GivenText(filters, "sortBy")
            THEN sort(byActive, filters.sortBy,
                      IF "sortOrder" \in DOMAIN filters
                      THEN filters.sortOrder ELSE "asc")
            ELSE byActive
        startIndex ==
            IF GivenNumber(filters, "page") /\ GivenNumber(filters, "limit")
            THEN (filters.page - 1) * filters.limit ELSE 0
    IN  [products |->
            IF GivenNumber(filters, "page") /\ GivenNumber(filters, "limit")
            THEN slice(sorted, startIndex, startIndex + filters.limit)
            ELSE sorted,
         total |-> Len(sorted),
         arr |-> IF filtered THEN arr ELSE sorted]

(***************************************************************************)
(* The synchronous code that runs when a getAllProducts call of process p  *)
(* returns the array arr.  al says whether arr is the array the cache      *)
(* holds (readFromFile hands out the array it has just cached), items is   *)
(* what the cache holds at that moment.  The result names the next values  *)
(* of the process and of the cached array, which a push, a splice, an      *)
(* index assignment or an in-place sort of an aliased arr changes as well. *)
(***************************************************************************)
Stay(p, arr, items) ==
    [pc |-> "done", cont |-> "none", products |-> arr, items |-> items,
     wmode |-> "none", product |-> product[p], ret |-> <<>>,
     outcome |-> "ok", updates |-> updates[p], total |-> total[p],
     stats |-> stats[p], loaded |-> arr, nextId |-> nextId]

\* An error path that leaves an empty cache behind.
ThrowAfterReset(p, arr, items, e) ==
    [Stay(p, arr, <<>>) EXCEPT !.outcome = e]

Throw(p, arr, items, e) == [Stay(p, arr, items) EXCEPT !.outcome = e]

Call(p, arr, items, k) ==
    [Stay(p, arr, items) EXCEPT !.pc = "load", !.cont = k, !.outcome = "none"]

\* arr is what getAllProducts returned, changed is arr after the push, the
\* splice or the index assignment.
Write(p, arr, changed, al, items, prod) ==
    [Stay(p, arr, items) EXCEPT
        !.pc = "w_bk", !.cont = "none", !.wmode = "op", !.outcome = "none",
        !.products = changed,
        !.product = prod,
        !.items = IF al THEN changed ELSE items]

\* ProductService.updateProduct after getProductById, from the name check on.
Validate(p, arr, items, upd) ==
    IF "name" \in DOMAIN upd /\ cont[p] # "update.validateProductName"
    THEN Call(p, arr, items, "update.validateProductName")
    ELSE IF ~validFields(upd)
    THEN Throw(p, arr, items, "badRequest")
    ELSE Call(p, arr, items, "update.dataService")

Resume(p, arr, al, items) ==
    LET k == cont[p]
        c == op[p]
    IN
    CASE k = "getAll" ->
            [Stay(p, arr, items) EXCEPT !.ret = arr]
      [] k = "search" ->
            LET r == searchProducts(arr, c)
            IN  [Stay(p, r.products, IF al THEN r.arr ELSE items)
                    EXCEPT !.ret = r.products, !.total = r.total,
                           !.loaded = arr]
      [] k = "stats.getStatistics" ->
            [Call(p, arr, items, "stats.getAllProducts")
                EXCEPT !.stats = getStatistics(arr)]
      [] k = "stats.getAllProducts" ->
            [Stay(p, arr, items) EXCEPT !.ret = lowStockProducts(arr)]
      [] k = "findById" ->
            LET i == findIndex(arr, c.id)
            IN  IF i = 0
                THEN Throw(p, arr, items, "notFound")
                ELSE [Stay(p, arr, items) EXCEPT !.ret = <<arr[i]>>]
      [] k = "create.validateProductName" ->
            IF duplicateName(arr, c.data.name, 0)
            THEN Throw(p, arr, items, "conflict")
            ELSE IF ~validFields(c.data)
            THEN Throw(p, arr, items, "badRequest")
            ELSE [Call(p, arr, items, "create.dataService") EXCEPT
                    !.product = newProduct(nextId, c.data, now),
                    !.nextId = nextId + 1]
      [] k = "create.dataService" ->
            IF findIndex(arr, product[p].id) # 0
            THEN Throw(p, arr, items, "conflict")
            ELSE Write(p, arr, push(arr, product[p]), al, items, product[p])
      [] k = "stock.getProductById" ->
            LET i == findIndex(arr, c.id)
            IN  IF i = 0
                THEN Throw(p, arr, items, "notFound")
                ELSE LET n == newStock(arr[i].stock, c.quantity, c.operation)
                     IN  IF c.operation = "subtract" /\ n < 0
                         THEN Throw(p, arr, items, "badRequest")
                         ELSE [Call(p, arr, items, "update.getProductById")
                                  EXCEPT !.updates = [stock |-> n]]
      [] k = "update.getProductById" ->
            IF findIndex(arr, c.id) = 0
            THEN Throw(p, arr, items, "notFound")
            ELSE Validate(p, arr, items, updates[p])
      [] k = "update.validateProductName" ->
            IF duplicateName(arr, updates[p].name, c.id)
            THEN Throw(p, arr, items, "conflict")
            ELSE Validate(p, arr, items, updates[p])
      [] k = "update.dataService" ->
            LET i == findIndex(arr, c.id)
            IN  IF i = 0
                THEN Throw(p, arr, items, "notFound")
                ELSE LET updatedProduct == merge(arr[i], updates[p], c.id, now)
                     IN  Write(p, arr, [arr EXCEPT ![i] = updatedProduct], al,
                               items, updatedProduct)
      [] k = "delete.getProductById" ->
            IF findIndex(arr, c.id) = 0
            THEN Throw(p, arr, items, "notFound")
            ELSE Call(p, arr, items, "delete.dataService")
      [] OTHER -> \* k = "delete.dataService"
            LET i == findIndex(arr, c.id)
            IN  IF i = 0
                THEN Throw(p, arr, items, "notFound")
                ELSE Write(p, arr, splice(arr, i), al, items, arr[i])

\* The process takes the values r names; the cache holds r.items, stamped t.
\* fresh says that the cache has been given a new array in this step, which
\* no other request holds.
Take(p, r, al, fresh, t, from) ==
    /\ pc' = [pc EXCEPT ![p] = r.pc]
    /\ cont' = [cont EXCEPT ![p] = r.cont]
    /\ products' = [products EXCEPT ![p] = r.products]
    /\ wmode' = [wmode EXCEPT ![p] = r.wmode]
    /\ product' = [product EXCEPT ![p] = r.product]
    /\ ret' = [ret EXCEPT ![p] = r.ret]
    /\ outcome' = [outcome EXCEPT ![p] = r.outcome]
    /\ updates' = [updates EXCEPT ![p] = r.updates]
    /\ total' = [total EXCEPT ![p] = r.total]
    /\ stats' = [stats EXCEPT ![p] = r.stats]
    /\ loaded' = [loaded EXCEPT ![p] = r.loaded]
    /\ nextId' = r.nextId
    /\ src' = [src EXCEPT ![p] = from]
    /\ aliased' = [q \in Procs |->
                      IF q = p THEN al ELSE IF fresh THEN FALSE ELSE aliased[q]]
    /\ cache' = Cached(r.items)
    /\ cacheTimestamp' = t

(***************************************************************************)
(* The calls a request can make.                                           *)
(***************************************************************************)
Searches  == {[name |-> "search", sortBy |-> "name", sortOrder |-> "asc"],
              [name |-> "search", sortBy |-> "createdAt", sortOrder |-> "desc"]}
Data(n, pr, s)  ==
    [name |-> n, description |-> "d", price |-> pr, category |-> "x",
     stock |-> s]
Create(d)       == [name |-> "create", data |-> d]
Update(i, u)    == [name |-> "update", id |-> i, updates |-> u]
Delete(i)       == [name |-> "delete", id |-> i]
FindById(i)     == [name |-> "findById", id |-> i]
Stock(i, q, o)  ==
    [name |-> "stock", id |-> i, quantity |-> q, operation |-> o]

Creates   == {Create(Data("a", 1000, 5)), Create(Data("B", 1000, 5)),
              Create(Data("a", 1000, -1))}
Updates   == {Update(1, [name |-> "B"]), Update(1, [name |-> "a"]),
              Update(1, [stock |-> 3]), Update(9, [stock |-> 3])}
Mutations == Creates \cup Updates
Races     == {Create(Data("a", 1000, 5)), Create(Data("B", 1000, 5)),
              Update(1, [name |-> "B"])}
Calls     == {[name |-> "getAll"]} \cup Searches \cup Mutations

FirstCall(c) ==
    CASE c.name = "getAll" -> "getAll"
      [] c.name = "search" -> "search"
      [] c.name = "statistics" -> "stats.getStatistics"
      [] c.name = "findById" -> "findById"
      [] c.name = "create" -> "create.validateProductName"
      [] c.name = "update" -> "update.getProductById"
      [] c.name = "delete" -> "delete.getProductById"
      [] OTHER             -> "stock.getProductById"

\* No other request is in the middle of a run-to-completion block.
NoSync(p) == \A q \in Procs \ {p} : pc[q] # "load"

Idle == [p \in Procs |-> "idle"]

(***************************************************************************)
(* A request arrives: the controller calls the service with call c.        *)
(***************************************************************************)
Start(p, c) ==
    /\ pc[p] = "idle"
    /\ NoSync(p)
    /\ op' = [op EXCEPT ![p] = c]
    /\ cont' = [cont EXCEPT ![p] = FirstCall(c)]
    /\ pc' = [pc EXCEPT ![p] = "load"]
    /\ updates' = [updates EXCEPT
                       ![p] = IF c.name = "update" THEN c.updates
                              ELSE NoUpdates]
    /\ ops' = ops + 1
    /\ UNCHANGED <<disk, store, now, nextId, products, aliased, wmode,
                   product, ret, outcome, total, stats, history, ticks,
                   faults>>

(***************************************************************************)
(* DataService.getAllProducts: a copy of the cache while it is valid,      *)
(* readFromFile otherwise.                                                 *)
(***************************************************************************)
getAllProducts(p) ==
    /\ pc[p] = "load"
    /\ IF isCacheValid
       THEN Take(p, Resume(p, cache.items, FALSE, cache.items), FALSE, FALSE,
                 cacheTimestamp, "cache")
       ELSE /\ pc' = [pc EXCEPT ![p] = "rd"]
            /\ UNCHANGED <<store, nextId, locals, src, loaded>>
    /\ UNCHANGED <<disk, now, op, found, persisted, crashed, budget>>

(***************************************************************************)
(* DataService.readFromFile: the data file is read and parsed; the parsed  *)
(* array goes into the cache and is returned itself.  No file: ENOENT,     *)
(* initializeEmptyData.  Anything else that fails: recoverFromBackup.      *)
(***************************************************************************)
readFromFile(p) ==
    /\ pc[p] = "rd"
    /\ NoSync(p)
    /\ IF ~dataFile.exists
       THEN /\ pc' = [pc EXCEPT ![p] = "w_bk"]
            /\ wmode' = [wmode EXCEPT ![p] = "init"]
            /\ products' = [products EXCEPT ![p] = initializeEmptyData]
            /\ found' = [found EXCEPT ![p] = Found("absent", <<>>)]
            /\ UNCHANGED <<store, nextId, cont, aliased, product, ret,
                           outcome, updates, total, stats, src, loaded>>
       ELSE IF JSONparse(dataFile.text).ok
       THEN /\ Take(p, Resume(p, Content(dataFile), TRUE, Content(dataFile)),
                    TRUE, TRUE, now, "primary")
            /\ found' = [found EXCEPT ![p] = Found("parsed", Content(dataFile))]
       ELSE /\ pc' = [pc EXCEPT ![p] = "rb"]
            /\ found' = [found EXCEPT ![p] = Found("unparseable", <<>>)]
            /\ UNCHANGED <<store, nextId, locals, src, loaded>>
    /\ UNCHANGED <<disk, now, op, persisted, crashed, budget>>

(***************************************************************************)
(* DataService.recoverFromBackup, up to its writeToFile: the backup is     *)
(* read and parsed.  If that fails: initializeEmptyData.                   *)
(***************************************************************************)
recoverFromBackup(p) ==
    /\ pc[p] = "rb"
    /\ NoSync(p)
    /\ pc' = [pc EXCEPT ![p] = "w_bk"]
    /\ IF Parseable(backupFile)
       THEN /\ wmode' = [wmode EXCEPT ![p] = "recover"]
            /\ products' = [products EXCEPT ![p] = Content(backupFile)]
            /\ found' = [found EXCEPT
                            ![p] = Found("recoverable", Content(backupFile))]
       ELSE /\ wmode' = [wmode EXCEPT ![p] = "init"]
            /\ products' = [products EXCEPT ![p] = initializeEmptyData]
            /\ found' = [found EXCEPT ![p] = Found("unusable", <<>>)]
    /\ UNCHANGED <<disk, store, now, nextId, op, cont, aliased, product, ret,
                   outcome, updates, total, stats, src, loaded, persisted,
                   crashed, budget>>

(***************************************************************************)
(* DataService.writeToFile, first half: the data file, if there is one,    *)
(* is copied over the backup.                                              *)
(***************************************************************************)
copyFile(p) ==
    /\ pc[p] = "w_bk"
    /\ NoSync(p)
    /\ backupFile' = backupAfterCopy(dataFile, backupFile)
    /\ pc' = [pc EXCEPT ![p] = "w_wr"]
    /\ UNCHANGED <<dataFile, store, now, nextId, op, locals, history, budget>>

(***************************************************************************)
(* DataService.writeToFile, second half: the document replaces the data    *)
(* file and a copy of the array becomes the cache.  Then the caller goes   *)
(* on: an operation returns its product; readFromFile (through             *)
(* recoverFromBackup or initializeEmptyData) returns the array written.    *)
(***************************************************************************)
writeFile(p) ==
    /\ pc[p] = "w_wr"
    /\ NoSync(p)
    /\ dataFile' = FileOf(JSONstringify(products[p]))
    /\ persisted' = Written(products[p], now)
    /\ IF wmode[p] = "op"
       THEN Take(p, [Stay(p, products[p], products[p]) EXCEPT
                        !.ret = IF op[p].name = "delete" THEN <<>>
                                ELSE <<product[p]>>,
                        !.loaded = loaded[p]],
                 FALSE, TRUE, now, src[p])
       ELSE Take(p, Resume(p, products[p], FALSE, products[p]), FALSE, TRUE,
                 now, IF wmode[p] = "recover" THEN "backup" ELSE "empty")
    /\ UNCHANGED <<backupFile, now, op, found, crashed, budget>>

\* A writeToFile whose catch only logs: the operation goes on as if the
\* document had been written.
writeFileFailsQuietly(p) ==
    /\ pc[p] = "w_wr"
    /\ NoSync(p)
    /\ faults < MaxFaults
    /\ faults' = faults + 1
    /\ pc' = [pc EXCEPT ![p] = "done"]
    /\ wmode' = [wmode EXCEPT ![p] = "none"]
    /\ cont' = [cont EXCEPT ![p] = "none"]
    /\ ret' = [ret EXCEPT ![p] = <<product[p]>>]
    /\ outcome' = [outcome EXCEPT ![p] = "ok"]
    /\ UNCHANGED <<disk, store, now, nextId, op, products, aliased, product,
                   updates, total, stats, history, ops, ticks>>

(***************************************************************************)
(* fs.writeFile fails: writeToFile throws ApiError.internal.  Inside       *)
(* recoverFromBackup the throw lands in its catch, which calls             *)
(* initializeEmptyData; everywhere else it reaches the caller.             *)
(***************************************************************************)
writeFileFails(p) ==
    /\ pc[p] = "w_wr"
    /\ NoSync(p)
    /\ faults < MaxFaults
    /\ faults' = faults + 1
    /\ IF wmode[p] = "recover"
       THEN /\ pc' = [pc EXCEPT ![p] = "w_bk"]
            /\ wmode' = [wmode EXCEPT ![p] = "init"]
            /\ products' = [products EXCEPT ![p] = initializeEmptyData]
            /\ UNCHANGED <<cont, ret, outcome>>
       ELSE /\ pc' = [pc EXCEPT ![p] = "done"]
            /\ wmode' = [wmode EXCEPT ![p] = "none"]
            /\ cont' = [cont EXCEPT ![p] = "none"]
            /\ ret' = [ret EXCEPT ![p] = <<>>]
            /\ outcome' = [outcome EXCEPT ![p] = "internal"]
            /\ UNCHANGED products
    /\ UNCHANGED <<disk, store, now, nextId, op, aliased, product, updates,
                   total, stats, history, ops, ticks>>

(***************************************************************************)
(* The response is sent; the request and its locals are gone.              *)
(***************************************************************************)
Return(p) ==
    /\ pc[p] = "done"
    /\ NoSync(p)
    /\ pc' = [pc EXCEPT ![p] = "idle"]
    /\ op' = [op EXCEPT ![p] = NoCall]
    /\ products' = [products EXCEPT ![p] = <<>>]
    /\ aliased' = [aliased EXCEPT ![p] = FALSE]
    /\ product' = [product EXCEPT ![p] = NoProduct]
    /\ ret' = [ret EXCEPT ![p] = <<>>]
    /\ outcome' = [outcome EXCEPT ![p] = "none"]
    /\ updates' = [updates EXCEPT ![p] = NoUpdates]
    /\ total' = [total EXCEPT ![p] = 0]
    /\ stats' = [stats EXCEPT ![p] = NoStats]
    /\ loaded' = [loaded EXCEPT ![p] = <<>>]
    /\ src' = [src EXCEPT ![p] = "none"]
    /\ found' = [found EXCEPT ![p] = Nothing]
    /\ crashed' = Null
    /\ UNCHANGED <<disk, store, now, nextId, cont, wmode, persisted, budget>>

(***************************************************************************)
(* DataService.clearCache, called between two requests.  (Called while a   *)
(* request waits for storage it leaves the state it leaves when called     *)
(* right after that request: the request sets the cache again when its     *)
(* read or write completes, or fails without touching it.)                 *)
(***************************************************************************)
clearCache ==
    /\ cache.set
    /\ pc = Idle
    /\ cache' = Null
    /\ cacheTimestamp' = 0
    /\ aliased' = [q \in Procs |-> FALSE]
    /\ UNCHANGED <<disk, now, nextId, pc, op, cont, products, wmode, product,
                   ret, outcome, updates, total, stats, history, budget>>

(***************************************************************************)
(* Time passes.  Only getAllProducts, readFromFile and writeToFile's       *)
(* second half read the clock; a tick before any other step is the same    *)
(* tick after it, so the clock advances where a request is about to read   *)
(* it.                                                                     *)
(***************************************************************************)
ReadsClock(p) == pc[p] \in {"load", "rd", "w_wr"}

Tick ==
    /\ ticks < MaxTicks
    /\ \E p \in Procs : ReadsClock(p)
    /\ ticks' = ticks + 1
    /\ now' = now + TickMs
    /\ UNCHANGED <<disk, store, nextId, pc, op, locals, history, ops, faults>>

(***************************************************************************)
(* The process dies while fs.writeFile of request p fills the data file,   *)
(* and is started again: a prefix of the document is on disk, the cache    *)
(* and every request in flight are gone.                                   *)
(***************************************************************************)
Crash(p) ==
    /\ pc[p] = "w_wr"
    /\ \A q \in Procs : pc[q] # "load"
    /\ faults < MaxFaults
    /\ faults' = faults + 1
    /\ \E part \in PartialWrites(JSONstringify(products[p])) :
          dataFile' = FileOf(part)
    /\ persisted' = NoWrite
    /\ crashed' = IF Parseable(dataFile) THEN Cached(Content(dataFile))
                  ELSE Null
    /\ cache' = Null
    /\ cacheTimestamp' = 0
    /\ pc' = Idle
    /\ op' = [q \in Procs |-> NoCall]
    /\ cont' = [q \in Procs |-> "none"]
    /\ products' = [q \in Procs |-> <<>>]
    /\ aliased' = [q \in Procs |-> FALSE]
    /\ wmode' = [q \in Procs |-> "none"]
    /\ product' = [q \in Procs |-> NoProduct]
    /\ ret' = [q \in Procs |-> <<>>]
    /\ outcome' = [q \in Procs |-> "none"]
    /\ updates' = [q \in Procs |-> NoUpdates]
    /\ total' = [q \in Procs |-> 0]
    /\ stats' = [q \in Procs |-> NoStats]
    /\ loaded' = [q \in Procs |-> <<>>]
    /\ src' = [q \in Procs |-> "none"]
    /\ found' = [q \in Procs |-> Nothing]
    /\ UNCHANGED <<backupFile, now, nextId, ops, ticks>>

(***************************************************************************)
(* One request at a time: the next arrives when the last has been          *)
(* answered.  Storage may fail and the process may die.                    *)
(***************************************************************************)
Request ==
    /\ ops < MaxOps
    /\ \E c \in Calls : Start(1, c)

Next ==
    \/ Request
    \/ getAllProducts(1)
    \/ readFromFile(1)
    \/ recoverFromBackup(1)
    \/ copyFile(1)
    \/ writeFile(1)
    \/ writeFileFails(1)
    \/ Return(1)
    \/ Crash(1)
    \/ clearCache
    \/ Tick

Spec == Init /\ [][Next]_vars

(***************************************************************************)
(* Two mutating requests in flight at the same time, storage working.      *)
(* The slots are interchangeable: the second is taken while the first is   *)
(* busy.                                                                   *)
(***************************************************************************)
Concurrent(p) ==
    /\ ops < MaxConcurrent
    /\ p = 1 \/ pc[1] # "idle"
    /\ \E c \in Races : Start(p, c)

NextConcurrent ==
    \/ \E p \in Procs : Concurrent(p)
    \/ \E p \in Procs : getAllProducts(p)
    \/ \E p \in Procs : readFromFile(p)
    \/ \E p \in Procs : recoverFromBackup(p)
    \/ \E p \in Procs : copyFile(p)
    \/ \E p \in Procs : writeFile(p)
    \/ \E p \in Procs : Return(p)
    \/ Tick

SpecConcurrent == Init /\ [][NextConcurrent]_vars


(***************************************************************************)
(* The catalogue operations, one request at a time: create, update,        *)
(* delete, updateProductStock and getProductById with inputs on both sides *)
(* of every check, storage that may refuse a write.                        *)
(***************************************************************************)
Edits ==
    { Create(Data("a", 1000, 5)),
      Create(Data("B", 1000, 5)),
      Create(Data("c", 1000, -1)),
      Create(Data("c", MaxPrice + 1, 5)),
      Create([name |-> "c", description |-> "ab", price |-> MaxPrice,
              category |-> "y", stock |-> 0, isActive |-> FALSE,
              tags |-> <<"t">>]),
      Update(1, [name |-> "B"]),
      Update(1, [name |-> "a"]),
      Update(2, [stock |-> 3]),
      Update(1, [price |-> MaxPrice + 1]),
      Update(2, [name |-> "A", stock |-> -1]),
      Update(9, [stock |-> 3]),
      Delete(1),
      Delete(9),
      Stock(1, 2, "add"),
      Stock(1, 5, "subtract"),
      Stock(1, 6, "subtract"),
      Stock(9, 2, "add"),
      FindById(1),
      [name |-> "getAll"] }

Edit ==
    /\ ops < MaxEdits
    /\ \E c \in Edits : Start(1, c)

NextCatalog ==
    \/ Edit
    \/ getAllProducts(1)
    \/ readFromFile(1)
    \/ recoverFromBackup(1)
    \/ copyFile(1)
    \/ writeFile(1)
    \/ writeFileFails(1)
    \/ Return(1)
    \/ Tick

SpecCatalog == Init /\ [][NextCatalog]_vars

(***************************************************************************)
(* Searches and statistics over a catalogue of up to four products, the    *)
(* backup one generation behind: every filter alone and some together,     *)
(* every sort key in both directions, pages inside, across and beyond the  *)
(* end.  Products 2 and 3 tie on price and on createdAt, products 1 and 4  *)
(* on price.                                                               *)
(***************************************************************************)
Catalogue ==
    << Record(1, "b", "d", 2000, "x", 5, TRUE, <<>>, SeedTime, SeedTime),
       Record(2, "a", "BA", 1001, "X", 20, TRUE, <<"t">>,
              SeedTime + 1, SeedTime + 1),
       Record(3, "c", "d", 1001, "y", 0, FALSE, <<"Ab", "t">>,
              SeedTime + 1, SeedTime + 2),
       Record(4, "ab", "ab", 2000, "constructor", 3, TRUE, <<>>,
              SeedTime + 2, SeedTime + 2) >>

Shelf(n) ==
    << FileOf(JSONstringify(SubSeq(Catalogue, 1, n))),
       IF n = 0 THEN NoFile
       ELSE FileOf(JSONstringify(SubSeq(Catalogue, 1, n - 1))) >>

Shelves == {Shelf(n) : n \in 0..Len(Catalogue)}

InitQuery == Boot(Shelves)

NoFilter == [x \in {} |-> ""]

Filters ==
    { NoFilter,
      [search |-> "B"],
      [search |-> "AB"],
      [search |-> "z"],
      [search |-> "", category |-> ""],
      [category |-> "X"],
      [isActive |-> FALSE],
      [search |-> "a", category |-> "x", isActive |-> TRUE],
      [search |-> "t", isActive |-> TRUE] }

Sorts ==
    { NoFilter }
      \cup { [sortBy |-> k, sortOrder |-> o] :
                 k \in {"name", "price", "createdAt"}, o \in {"asc", "desc"} }

Pages ==
    { NoFilter,
      [page |-> 1, limit |-> 3],
      [page |-> 2, limit |-> 3],
      [page |-> 2, limit |-> 2],
      [page |-> 3, limit |-> 2] }

Queries ==
    { [name |-> "search"] @@ f @@ o @@ g :
         f \in Filters, o \in Sorts, g \in Pages }
      \cup { [name |-> "statistics"] }

Query ==
    /\ ops < MaxQueries
    /\ \E c \in Queries : Start(1, c)

NextQuery ==
    \/ Query
    \/ getAllProducts(1)
    \/ readFromFile(1)
    \/ Return(1)
    \/ Tick

SpecQuery == InitQuery /\ [][NextQuery]_vars

(***************************************************************************)
(* Stock adjustments of one product, two in flight at the same time,       *)
(* storage working.                                                        *)
(***************************************************************************)
Adjustments ==
    {Stock(1, 2, "add"), Stock(1, 3, "subtract"), Stock(1, 5, "subtract")}

Adjust(p) ==
    /\ ops < MaxAdjusts
    /\ p = 1 \/ pc[1] # "idle"
    /\ \E c \in Adjustments : Start(p, c)

NextStock ==
    \/ \E p \in Procs : Adjust(p)
    \/ \E p \in Procs : getAllProducts(p)
    \/ \E p \in Procs : readFromFile(p)
    \/ \E p \in Procs : recoverFromBackup(p)
    \/ \E p \in Procs : copyFile(p)
    \/ \E p \in Procs : writeFile(p)
    \/ \E p \in Procs : Return(p)
    \/ Tick

SpecStock == Init /\ [][NextStock]_vars

(***************************************************************************)
(* The routes of productRoutes with their middleware.  validateUUID and    *)
(* validate are synchronous: together with the controller up to its first  *)
(* storage call they are one step.  A path parameter of the model is one   *)
(* of the UUIDs 1, 2 and 9 or NotUUID, which stands for a text such as     *)
(* "invalid-id"; page and limit are the numbers z.coerce.number makes of   *)
(* the query texts; isActive is the query text itself.  express.json       *)
(* always leaves an object in req.body.                                    *)
(***************************************************************************)
NotUUID == 0

\* A test every path parameter passes.
uuidRegexAny(paramValue) == TRUE

uuidRegex(paramValue) == paramValue # NotUUID

\* z.string().uuid()
ProductParamsSchema(params) == params.id # NotUUID

ProductSchema(body) ==
    /\ "name" \in DOMAIN body => body.name # ""
    /\ "description" \in DOMAIN body => body.description # ""
    /\ "price" \in DOMAIN body => body.price > 0
    /\ "category" \in DOMAIN body => body.category # ""
    /\ "stock" \in DOMAIN body => body.stock >= 0

CreateProductSchema(body) ==
    /\ {"name", "description", "price", "category", "stock"} \subseteq DOMAIN body
    /\ ProductSchema(body)

UpdateProductSchema(body) == ProductSchema(body)

StockUpdateSchema(body) ==
    /\ {"quantity", "operation"} \subseteq DOMAIN body
    /\ body.quantity > 0
    /\ body.operation \in {"add", "subtract"}

ProductQuerySchema(query) ==
    /\ "page" \in DOMAIN query => query.page >= 1
    /\ "limit" \in DOMAIN query => query.limit >= 1 /\ query.limit <= 100
    /\ "sortBy" \in DOMAIN query
          => query.sortBy \in {"name", "price", "createdAt"}
    /\ "sortOrder" \in DOMAIN query => query.sortOrder \in {"asc", "desc"}

\* What ProductQuerySchema.parse returns: the defaults filled in, isActive
\* coerced with Boolean().
QueryDefaults ==
    [page |-> 1, limit |-> 10, sortBy |-> "createdAt", sortOrder |-> "desc"]

parseQuery(query) ==
    [k \in DOMAIN query \cup DOMAIN QueryDefaults |->
        IF k \notin DOMAIN query THEN QueryDefaults[k]
        ELSE IF k = "isActive" THEN query[k] # ""
        ELSE query[k]]

\* What CreateProductSchema.parse returns: isActive defaults to true.
parseCreate(body) == body @@ [isActive |-> TRUE]

NoBody == [x \in {} |-> ""]

Req(route, id, body, query) ==
    [route |-> route, id |-> id, body |-> body, query |-> query]

WithId == {"GET /:id", "PUT /:id", "PATCH /:id/stock", "DELETE /:id"}

\* validate(options) of the route: the body, then the query, then the params
validate(r) ==
    CASE r.route = "GET /"            -> ProductQuerySchema(r.query)
      [] r.route = "POST /"           -> CreateProductSchema(r.body)
      [] r.route = "PUT /:id"         ->
            UpdateProductSchema(r.body) /\ ProductParamsSchema(r)
      [] r.route = "PATCH /:id/stock" ->
            StockUpdateSchema(r.body) /\ ProductParamsSchema(r)
      [] OTHER                        -> ProductParamsSchema(r)

\* The call the controller of the route makes.
controller(r) ==
    CASE r.route = "GET /"    -> [name |-> "search"] @@ parseQuery(r.query)
      [] r.route = "POST /"   -> Create(parseCreate(r.body))
      [] r.route = "GET /:id" -> FindById(r.id)
      [] r.route = "PUT /:id" -> Update(r.id, r.body)
      [] r.route = "PATCH /:id/stock" ->
            Stock(r.id, r.body.quantity, r.body.operation)
      [] OTHER                -> Delete(r.id)

\* res.status(error.statusCode).json(error.toJSON()) with no call of next()
respond(p, r, e) ==
    /\ pc[p] = "idle"
    /\ NoSync(p)
    /\ pc' = [pc EXCEPT ![p] = "done"]
    /\ op' = [op EXCEPT ![p] = [name |-> "none", request |-> r]]
    /\ outcome' = [outcome EXCEPT ![p] = e]
    /\ ops' = ops + 1
    /\ UNCHANGED <<disk, store, now, nextId, cont, products, aliased, wmode,
                   product, ret, updates, total, stats, history, ticks,
                   faults>>

Requests ==
    { Req("POST /", 1, Data("c", 1000, 5), NoBody),
      Req("POST /", 1, [name |-> "", description |-> "", price |-> 0 - 10],
          NoBody),
      Req("GET /:id", 1, NoBody, NoBody),
      Req("GET /:id", NotUUID, NoBody, NoBody),
      Req("PUT /:id", 1, [stock |-> 3], NoBody),
      Req("PUT /:id", NotUUID, [stock |-> 3], NoBody),
      Req("PUT /:id", 1, [price |-> 0 - 10], NoBody),
      Req("PUT /:id", NotUUID, [price |-> 0 - 10], NoBody),
      Req("DELETE /:id", 2, NoBody, NoBody),
      Req("DELETE /:id", NotUUID, NoBody, NoBody),
      Req("PATCH /:id/stock", 1, [quantity |-> 2, operation |-> "add"],
          NoBody),
      Req("PATCH /:id/stock", 1, [quantity |-> 0, operation |-> "add"],
          NoBody),
      Req("GET /", 1, NoBody, NoBody),
      Req("GET /", 1, NoBody, [page |-> 0]),
      Req("GET /", 1, NoBody, [limit |-> 101]),
      Req("GET /", 1, NoBody, [isActive |-> "false", page |-> 1, limit |-> 2]) }

router(p) ==
    /\ ops < MaxRequests
    /\ \E r \in Requests :
          IF r.route \in WithId /\ ~uuidRegex(r.id)
          THEN respond(p, r, "badRequest")
          ELSE IF ~validate(r)
          THEN respond(p, r, "unprocessableEntity")
          ELSE Start(p, controller(r) @@ [request |-> r])

NextHttp ==
    \/ router(1)
    \/ getAllProducts(1)
    \/ readFromFile(1)
    \/ recoverFromBackup(1)
    \/ copyFile(1)
    \/ writeFile(1)
    \/ Return(1)
    \/ Tick

SpecHttp == Init /\ [][NextHttp]_vars

(***************************************************************************)
(* Properties.                                                             *)
(***************************************************************************)
Done(p, name) == pc[p] = "done" /\ op[p].name = name

FreshnessWindow == 5 * 60 * 1000

\* C1: a getAllProducts that reads the data file after a writeToFile(P) of
\* this process has completed (the cache cleared or expired in between)
\* returns P, element for element and in the same order.
RoundTrip ==
    \A p \in Procs :
        (Done(p, "getAll") /\ src[p] = "primary" /\ persisted.set)
            => outcome[p] = "ok" /\ ret[p] = persisted.items

RoundTripReached ==
    \E p \in Procs :
        /\ Done(p, "getAll") /\ src[p] = "primary" /\ persisted.set
        /\ Len(persisted.items) >= 2
        /\ \E i \in 1..Len(persisted.items) :
              persisted.items[i].updatedAt # persisted.items[i].createdAt
        /\ ret[p] = persisted.items

\* C2: a getAllProducts that finds the data file unparseable and the backup
\* parseable returns the records of the backup without an error, and the
\* data file holds them afterwards.
RecoveryReturnsBackup ==
    \A p \in Procs :
        (Done(p, "getAll") /\ found[p].case = "recoverable")
            => /\ outcome[p] = "ok"
               /\ ret[p] = found[p].items
               /\ Parseable(dataFile)
               /\ Content(dataFile) = found[p].items

\* C3: no two records of the data file have names that are equal ignoring
\* case, whatever the interleaving of creates and updates.
UniqueNames ==
    Parseable(dataFile) =>
        \A i, j \in 1..Len(Content(dataFile)) :
            i # j => toLowerCase(Content(dataFile)[i].name)
                        # toLowerCase(Content(dataFile)[j].name)

\* C4: two creates that have loaded the same collection and have both
\* returned their product, the second of them having written last: the
\* data file holds the record of the second and not the record of the
\* first.
SameSnapshot(p, q) ==
    /\ products[p] # <<>> /\ products[q] # <<>>
    /\ SubSeq(products[p], 1, Len(products[p]) - 1)
          = SubSeq(products[q], 1, Len(products[q]) - 1)

BothCreated(p, q) ==
    /\ p # q
    /\ Done(p, "create") /\ outcome[p] = "ok" /\ ret[p] = <<product[p]>>
    /\ Done(q, "create") /\ outcome[q] = "ok" /\ ret[q] = <<product[q]>>
    /\ SameSnapshot(p, q)
    /\ persisted.set /\ persisted.items = products[q]

Holds(f, x) == \E i \in 1..Len(Content(f)) : Content(f)[i] = x

LostUpdate ==
    \A p, q \in Procs :
        BothCreated(p, q)
            => /\ Parseable(dataFile)
               /\ Holds(dataFile, product[q])
               /\ ~Holds(dataFile, product[p])

LostUpdateReached ==
    \E p, q \in Procs :
        /\ BothCreated(p, q)
        /\ Len(Content(dataFile)) >= 2
        /\ Holds(dataFile, product[q])
        /\ ~Holds(dataFile, product[p])

\* C5: what getAllProducts returns from a read of the data file is a copy:
\* whatever the caller does with it (push, index assignment, sort), the
\* cache holds the collection that was read.
ReadReturnsCopy ==
    [][\A p \in Procs :
          (pc[p] = "rd" /\ found'[p].case = "parsed" /\ pc'[p] # "rd")
              => cache'.set /\ cache'.items = Content(dataFile)]_vars

\* C6: getAllProducts answers from the cache, touching no file, exactly
\* when there is a cache younger than 5 minutes; otherwise (no cache, a
\* cleared cache, a cache of 5 minutes or more) it goes on to read the data
\* file.
Answers(p) == pc[p] = "load" /\ <<pc[p], cont[p]>>' # <<pc[p], cont[p]>>

CacheServedExactlyWhenFresh ==
    [][\A p \in Procs :
          Answers(p) =>
              IF cache.set /\ now - cacheTimestamp < FreshnessWindow
              THEN /\ pc'[p] # "rd"
                   /\ src'[p] = "cache"
                   /\ disk' = disk
                   /\ cont[p] = "getAll" => ret'[p] = cache.items
              ELSE /\ pc'[p] = "rd"
                   /\ disk' = disk
                   /\ ret'[p] = ret[p]]_vars

ExpiredCacheRead ==
    \E p \in Procs :
        /\ pc[p] = "rd"
        /\ cache.set
        /\ now - cacheTimestamp = FreshnessWindow

\* C7: a getAllProducts within 5 minutes of the last writeToFile(P) of this
\* process that completed, and before any later write, returns P.
ReadYourWrite ==
    \A p \in Procs :
        (Done(p, "getAll") /\ persisted.set
            /\ now - persisted.at < FreshnessWindow)
            => outcome[p] = "ok" /\ ret[p] = persisted.items

\* C8: in a writeToFile with no other writeToFile interleaved, the copy to
\* the backup comes before the overwrite: when the write completes the
\* backup holds what the data file held before it; when there is no data
\* file the copy is skipped, the backup stays as it is and the write goes
\* ahead.
Copies(p) == pc[p] = "w_bk" /\ pc'[p] = "w_wr"
Overwrites(p) == pc[p] = "w_wr" /\ pc'[p] # "w_wr" /\ faults' = faults

CrashRecovered ==
    \A p \in Procs :
        (Done(p, "getAll") /\ crashed.set)
            => outcome[p] = "ok" /\ ret[p] = crashed.items

\* C10: a getAllProducts that finds no data file, or an unreadable data
\* file and no usable backup, writes the empty collection to the data file
\* and returns it without an error, unless that write cannot complete: then
\* it throws the storage error of writeToFile and the data file is as it
\* was.
NothingUsable(p) == found[p].case \in {"absent", "unusable"}

WriteFails(p) == pc[p] = "w_wr" /\ faults' = faults + 1

StorageErrorPropagates ==
    [][\A p \in Procs :
          (WriteFails(p) /\ wmode[p] = "op")
              => /\ pc'[p] = "done"
                 /\ outcome'[p] = "internal"
                 /\ ret'[p] = <<>>
                 /\ dataFile' = dataFile]_vars

StorageErrorReached ==
    \E p \in Procs :
        /\ pc[p] = "done" /\ op[p].name \in {"create", "update", "delete"}
        /\ outcome[p] = "internal"
        /\ ret[p] = <<>>
        /\ Parseable(dataFile) /\ Content(dataFile) # products[p]


\* C12: no two records of the collection (in the data file, in the cache)
\* have the same id, and the id of the product a create returns is the id
\* of no record of the collection that create loaded.
UniqueIds(arr) ==
    \A i, j \in 1..Len(arr) : i # j => arr[i].id # arr[j].id

DistinctIds ==
    /\ Parseable(dataFile) => UniqueIds(Content(dataFile))
    /\ cache.set => UniqueIds(cache.items)
    /\ \A p \in Procs :
          (Done(p, "create") /\ outcome[p] = "ok")
              => \A i \in 1..Len(loaded[p]) : loaded[p][i].id # ret[p][1].id

DistinctIdsReached ==
    \E p \in Procs :
        /\ Done(p, "create") /\ outcome[p] = "ok"
        /\ ret[p][1].id > FirstId
        /\ Len(loaded[p]) >= 1
        /\ Content(dataFile) = Append(loaded[p], ret[p][1])


\* C13: every record of the collection (in the data file, in the cache) has
\* a stock >= 0 and a price with 0 < price <= 999999.99, whatever creates,
\* updates and stock adjustments have succeeded or failed.
InBounds(arr) ==
    \A i \in 1..Len(arr) :
        /\ arr[i].stock >= 0
        /\ arr[i].price > 0
        /\ arr[i].price <= 99999999

StockAndPriceBounds ==
    /\ Parseable(dataFile) => InBounds(Content(dataFile))
    /\ Parseable(backupFile) => InBounds(Content(backupFile))
    /\ cache.set => InBounds(cache.items)

StockAndPriceBoundsReached ==
    \E p \in Procs :
        /\ Done(p, "stock") /\ op[p].operation = "subtract"
        /\ outcome[p] = "ok"
        /\ ret[p][1].stock = 0
        /\ \E i \in 1..Len(Content(dataFile)) :
              Content(dataFile)[i] = ret[p][1]


\* C14: a create whose name equals, ignoring case, the name of a record of
\* the collection validateProductName loads ends with the conflict error;
\* so does an update that gives a record the name of another record; an
\* update that gives a record its own name, in any case, does not.
SameName(x, name) == toLowerCase(x.name) = toLowerCase(name)

NameTaken(arr, name, id) ==
    \E i \in 1..Len(arr) : SameName(arr[i], name) /\ arr[i].id # id

OwnName(arr, name, id) ==
    /\ \E i \in 1..Len(arr) : SameName(arr[i], name) /\ arr[i].id = id
    /\ ~NameTaken(arr, name, id)

\* The getAllProducts call made at call site k of request p returns.
Returns(p, k) == cont[p] = k /\ cont'[p] # k /\ faults' = faults

NameConflicts ==
    [][\A p \in Procs :
          /\ Returns(p, "create.validateProductName")
                => (outcome'[p] = "conflict"
                      <=> NameTaken(loaded'[p], op[p].data.name, 0))
          /\ Returns(p, "update.validateProductName")
                => (outcome'[p] = "conflict"
                      <=> NameTaken(loaded'[p], updates[p].name, op[p].id))
      ]_vars

OwnNameKept ==
    \E p \in Procs :
        /\ Done(p, "update") /\ outcome[p] = "ok"
        /\ "name" \in DOMAIN op[p].updates
        /\ OwnName(loaded[p], op[p].updates.name, op[p].id)
        /\ ret[p][1].name = "B"
        /\ \E i \in 1..Len(loaded[p]) :
              loaded[p][i].id = op[p].id /\ loaded[p][i].name = "b"


\* C15: an updateProductStock that subtracts more than the stock of the
\* record ends, when its getProductById returns, with an error that is not
\* the error validateProductPrice and validateProductStock throw for
\* out-of-bounds input (ApiError.badRequest), and without a write: the files
\* are as they were unless the load itself had to restore them, and the
\* cache holds the collection that was loaded.
Overdraws(p) ==
    /\ Returns(p, "stock.getProductById")
    /\ op[p].operation = "subtract"
    /\ \E i \in 1..Len(loaded'[p]) :
          /\ loaded'[p][i].id = op[p].id
          /\ loaded'[p][i].stock < op[p].quantity

OverdrawIsDomainError ==
    [][\A p \in Procs :
          Overdraws(p)
              => /\ pc'[p] = "done"
                 /\ outcome'[p] \notin {"ok", "none", "badRequest"}
                 /\ pc[p] # "w_wr" => disk' = disk
                 /\ cache'.items = loaded'[p]]_vars


\* C16: the step in which a create, update, delete or updateProductStock
\* ends with badRequest, notFound or conflict is not a write of the
\* operation and the operation has written nothing before it: the files and
\* the cache are as they were (or as the load that had to read or restore
\* them left them), and a getAllProducts that follows returns the collection
\* the failed call loaded.
Fails(p) ==
    /\ op[p].name \in {"create", "update", "delete", "stock"}
    /\ outcome[p] = "none"
    /\ outcome'[p] \in {"badRequest", "notFound", "conflict"}

FailedCallWritesNothing ==
    [][\A p \in Procs :
          Fails(p)
              => /\ wmode[p] # "op"
                 /\ pc[p] # "w_wr" => disk' = disk /\ persisted' = persisted
                 /\ pc[p] = "load" => cache' = cache
                 /\ isCacheValid'
                 /\ cache'.items = loaded'[p]
                 /\ products'[p] = loaded'[p]]_vars

FailedCallReached ==
    \E p \in Procs :
        /\ Done(p, "update") /\ outcome[p] = "conflict"
        /\ Len(loaded[p]) >= 2
        /\ cache.items = loaded[p]
        /\ Parseable(dataFile) /\ Content(dataFile) = loaded[p]


\* C17: the product a create builds carries the fields of the input, true
\* for isActive and no tags where the input has none, and the time of the
\* call as createdAt and updatedAt; when its write completes, create
\* returns that product and the data file holds the collection create
\* loaded, in its order, with the product appended.
Built(data, id, t) ==
    [id |-> id, name |-> data.name, description |-> data.description,
     price |-> data.price, category |-> data.category, stock |-> data.stock,
     isActive |-> IF "isActive" \in DOMAIN data THEN data.isActive ELSE TRUE,
     tags |-> IF "tags" \in DOMAIN data THEN data.tags ELSE <<>>,
     createdAt |-> t, updatedAt |-> t]

Completes(p, name) ==
    /\ op[p].name = name
    /\ pc[p] = "w_wr" /\ wmode[p] = "op"
    /\ pc'[p] = "done" /\ faults' = faults

CreateAppends ==
    [][\A p \in Procs :
          /\ (Returns(p, "create.validateProductName")
                 /\ outcome'[p] = "none")
                => product'[p] = Built(op[p].data, nextId, now)
          /\ Completes(p, "create")
                => /\ outcome'[p] = "ok"
                   /\ ret'[p] = <<product[p]>>
                   /\ Content(dataFile') = Append(loaded[p], product[p])
                   /\ cache'.items = Append(loaded[p], product[p])]_vars

CreateAppendsReached ==
    \E p \in Procs :
        /\ Done(p, "create") /\ outcome[p] = "ok"
        /\ ret[p][1].isActive = FALSE /\ ret[p][1].tags = <<"t">>
        /\ ret[p][1].createdAt = ret[p][1].updatedAt
        /\ Len(loaded[p]) >= 2
        /\ Content(dataFile) = Append(loaded[p], ret[p][1])


\* C18: an update of an id the collection holds returns and writes a record
\* that has the values of the input for the fields the input names, the
\* time of the update as updatedAt and the values of the record it replaces
\* for every other field, id and createdAt included; the other records and
\* the order are as loaded.  An update of an id the collection does not
\* hold ends with notFound.
Fields == {"id", "name", "description", "price", "category", "stock",
           "isActive", "tags", "createdAt"}

Position(arr, id) == CHOOSE i \in 1..Len(arr) : arr[i].id = id

Has(arr, id) == \E i \in 1..Len(arr) : arr[i].id = id

Updated(old, new, upd) ==
    \A f \in Fields :
        new[f] = IF f \in DOMAIN upd THEN upd[f] ELSE old[f]

UpdateChangesNamedFields ==
    [][\A p \in Procs :
          /\ (Returns(p, "update.getProductById") /\ op[p].name = "update")
                => (outcome'[p] = "notFound" <=> ~Has(loaded'[p], op[p].id))
          /\ (Returns(p, "update.dataService") /\ op[p].name = "update"
                 /\ outcome'[p] = "none")
                => /\ product'[p].updatedAt = now
                   /\ Updated(loaded'[p][Position(loaded'[p], op[p].id)],
                              product'[p], op[p].updates)
          /\ Completes(p, "update")
                => /\ outcome'[p] = "ok"
                   /\ ret'[p] = <<product[p]>>
                   /\ Content(dataFile')
                         = [loaded[p] EXCEPT
                               ![Position(loaded[p], op[p].id)] = product[p]]
      ]_vars

UpdateReached ==
    \E p \in Procs :
        /\ Done(p, "update") /\ outcome[p] = "ok"
        /\ Len(loaded[p]) >= 2
        /\ ret[p][1].id = 2 /\ ret[p][1].stock = 3
        /\ ret[p][1].updatedAt > ret[p][1].createdAt
        /\ Content(dataFile) = [loaded[p] EXCEPT ![2] = ret[p][1]]
        /\ Content(dataFile) # loaded[p]


\* C19: a delete of an id the collection holds writes the collection as
\* loaded without the record of that id, the other records as they were and
\* in their order, and leaves the id in neither the data file nor the
\* cache; a findById reports notFound exactly when the collection it loads
\* has no record of the id; a delete of an id the collection does not hold
\* ends with notFound.
Without(arr, id) == SelectSeq(arr, LAMBDA r : r.id # id)

DeleteRemovesOne ==
    [][\A p \in Procs :
          /\ Returns(p, "delete.getProductById")
                => (outcome'[p] = "notFound" <=> ~Has(loaded'[p], op[p].id))
          /\ Completes(p, "delete")
                => /\ outcome'[p] = "ok"
                   /\ Has(loaded[p], op[p].id)
                   /\ Len(Content(dataFile')) = Len(loaded[p]) - 1
                   /\ Content(dataFile') = Without(loaded[p], op[p].id)
                   /\ cache' # Null /\ cache'.items = Content(dataFile')
                   /\ isCacheValid'
          /\ Returns(p, "findById")
                => /\ outcome'[p] = "notFound" <=> ~Has(loaded'[p], op[p].id)
                   /\ (pc[p] = "load" /\ isCacheValid)
                         => loaded'[p] = cache.items
      ]_vars

DeletedNotFound ==
    \E p \in Procs :
        /\ Done(p, "findById") /\ outcome[p] = "notFound" /\ op[p].id = 1
        /\ loaded[p] = Without(Seed2, 1)
        /\ Len(loaded[p]) = 1
        /\ Content(dataFile) = loaded[p]


\* C20, as stated: every record of the collection (in the data file, in the
\* backup, in the cache) has updatedAt >= createdAt, and an update or a
\* stock adjustment that succeeds writes the record with an updatedAt that
\* differs from the updatedAt of the record it loaded.
Ordered(arr) == \A i \in 1..Len(arr) : arr[i].updatedAt >= arr[i].createdAt

UpdatedAtOrdered ==
    /\ Parseable(dataFile) => Ordered(Content(dataFile))
    /\ Parseable(backupFile) => Ordered(Content(backupFile))
    /\ cache.set => Ordered(cache.items)

Mutates(p) == Completes(p, "update") \/ Completes(p, "stock")

Before(p) == loaded[p][Position(loaded[p], op[p].id)]

UpdatedAtChanges ==
    /\ []UpdatedAtOrdered
    /\ [][\A p \in Procs :
             Mutates(p) => ret'[p][1].updatedAt # Before(p).updatedAt]_vars

\* C20, amended: every record of the collection has updatedAt >= createdAt,
\* and an update or a stock adjustment that succeeds writes the record with
\* the clock's reading at the merge as its updatedAt, which is not earlier
\* than the updatedAt of the record it loaded and differs from it when the
\* clock has advanced since that one was set.
UpdatedAtIsTimeOfMutation ==
    /\ []UpdatedAtOrdered
    /\ [][\A p \in Procs :
             /\ (Returns(p, "update.dataService") /\ outcome'[p] = "none")
                   => product'[p].updatedAt = now
             /\ Mutates(p)
                   => /\ ret'[p] = <<product[p]>>
                      /\ ret'[p][1].updatedAt >= Before(p).updatedAt
                      /\ ret'[p][1].updatedAt <= now
                      /\ \E i \in 1..Len(Content(dataFile')) :
                            Content(dataFile')[i] = ret'[p][1]
       ]_vars

UpdatedAtMoved ==
    \E p \in Procs :
        /\ Done(p, "stock") /\ outcome[p] = "ok"
        /\ ret[p][1].updatedAt > Before(p).updatedAt
        /\ Before(p).updatedAt > Before(p).createdAt
        /\ UpdatedAtOrdered
        /\ \E i \in 1..Len(Content(dataFile)) : Content(dataFile)[i] = ret[p][1]


\* C26: a getAllProducts that has recovered the collection from a parseable
\* backup (the data file was unparseable) leaves a backup that is still
\* parseable and still holds a collection a second recovery can use.
BackupStaysUsable ==
    \A p \in Procs :
        (Done(p, "getAll") /\ found[p].case = "recoverable"
            /\ outcome[p] = "ok" /\ ret[p] = found[p].items)
            => Parseable(backupFile)


\* C30: a getAllProducts that finds the data file unparseable and the
\* backup parseable either returns the records of the backup or throws the
\* storage error, never the empty collection in their place, and the
\* records of the backup are in the data file or in the backup afterwards,
\* also when the write that restores the data file fails.
Keeps(f, items) == Parseable(f) /\ Content(f) = items

RecoveryNeverEmpties ==
    \A p \in Procs :
        (Done(p, "getAll") /\ found[p].case = "recoverable")
            => /\ \/ outcome[p] = "ok" /\ ret[p] = found[p].items
                  \/ outcome[p] = "internal"
               /\ \/ Keeps(dataFile, found[p].items)
                  \/ Keeps(backupFile, found[p].items)


\* C28: when the only write of a behaviour has failed with the storage
\* error (no writeToFile has completed, the data file is as it was), a
\* later getAllProducts, from the cache or from the data file, returns the
\* records of the data file and no others: the mutation that failed has
\* left nothing behind.
Records(arr) == {arr[i] : i \in 1..Len(arr)}

FailedWriteLeavesNoTrace ==
    \A p \in Procs :
        (Done(p, "getAll") /\ faults > 0 /\ ~persisted.set
            /\ Parseable(dataFile))
            => /\ outcome[p] = "ok"
               /\ Len(ret[p]) = Len(Content(dataFile))
               /\ Records(ret[p]) = Records(Content(dataFile))


\* C27: a search changes neither the data file nor the collection the
\* cache holds, also when it sorts without a filter after missing the
\* cache: the cache holds afterwards what it held before on a hit and the
\* collection of the data file, in its order, on a miss; and a create
\* writes the records the data file held, in their order, followed by the
\* new record.
SearchIsReadOnly ==
    [][\A p \in Procs :
          /\ (Returns(p, "search") /\ pc[p] \in {"load", "rd"})
                => /\ disk' = disk
                   /\ cache'.set
                   /\ cache'.items = IF pc[p] = "load" THEN cache.items
                                     ELSE Content(dataFile)
          /\ (Completes(p, "create") /\ Parseable(dataFile))
                => Content(dataFile') = Append(Content(dataFile), product[p])
      ]_vars


\* C21: a search returns records of the collection it loaded that satisfy
\* every filter given (a text that is not empty: the name, the description
\* or a tag contains it, letter case ignored; a category that is not empty:
\* equal, letter case ignored; isActive: equal) and, without a page, all of
\* them; total is the number of the records that satisfy the filters,
\* whatever page and limit are.
Lower(s) == [i \in 1..Len(Chars(s)) |-> toLowerCase(Chars(s)[i])]

Within(text, part) ==
    \E i \in 1..(Len(text) + 1) :
        /\ i + Len(part) - 1 <= Len(text)
        /\ \A j \in 1..Len(part) : text[i + j - 1] = part[j]

Asked(f, k) == k \in DOMAIN f /\ f[k] # ""

Paged(f) == "page" \in DOMAIN f /\ "limit" \in DOMAIN f

Satisfies(r, f) ==
    /\ Asked(f, "search")
          => \/ Within(Lower(r.name), Lower(f.search))
             \/ Within(Lower(r.description), Lower(f.search))
             \/ \E i \in 1..Len(r.tags) :
                   Within(Lower(r.tags[i]), Lower(f.search))
    /\ Asked(f, "category") => Lower(r.category) = Lower(f.category)
    /\ "isActive" \in DOMAIN f => r.isActive = f.isActive

Matching(arr, f) == {i \in 1..Len(arr) : Satisfies(arr[i], f)}

SearchKeepsMatches ==
    [][\A p \in Procs :
          Returns(p, "search")
             => /\ outcome'[p] = "ok"
                /\ total'[p] = Cardinality(Matching(loaded'[p], op[p]))
                /\ \A i \in 1..Len(ret'[p]) :
                      \E j \in Matching(loaded'[p], op[p]) :
                          ret'[p][i] = loaded'[p][j]
                /\ ~Paged(op[p])
                      => /\ Len(ret'[p]) = total'[p]
                         /\ \A j \in Matching(loaded'[p], op[p]) :
                               \E i \in 1..Len(ret'[p]) :
                                   ret'[p][i] = loaded'[p][j]
      ]_vars

SearchKeepsMatchesReached ==
    \E p \in Procs :
        /\ Done(p, "search") /\ outcome[p] = "ok"
        /\ Asked(op[p], "search") /\ op[p].search = "AB"
        /\ ~Paged(op[p]) /\ "sortBy" \notin DOMAIN op[p]
        /\ Len(loaded[p]) = 4
        /\ total[p] = 2
        /\ ret[p] = <<loaded[p][3], loaded[p][4]>>


\* C22: a search with a sort key returns its records ordered by that key
\* (name, price or createdAt) in the direction asked for, and two records
\* with equal keys in the order in which they were inserted, which is
\* their order in the data file, in both directions.
Compare(a, b, k) ==
    CASE k = "name"  -> localeCompare(a.name, b.name)
      [] k = "price" -> a.price - b.price
      [] OTHER       -> a.createdAt - b.createdAt

InOrder(a, b, f) ==
    IF "sortOrder" \in DOMAIN f /\ f.sortOrder = "desc"
    THEN Compare(a, b, f.sortBy) >= 0
    ELSE Compare(a, b, f.sortBy) <= 0

SortedAndStable ==
    [][\A p \in Procs :
          (Returns(p, "search") /\ Asked(op[p], "sortBy"))
             => \A i, j \in 1..Len(ret'[p]) :
                   i < j =>
                      /\ InOrder(ret'[p][i], ret'[p][j], op[p])
                      /\ Compare(ret'[p][i], ret'[p][j], op[p].sortBy) = 0
                            => Position(Content(dataFile), ret'[p][i].id)
                                  < Position(Content(dataFile), ret'[p][j].id)
      ]_vars


\* C23: with page >= 1 and limit >= 1 a search returns the elements from
\* position (page - 1) * limit on, limit of them or as many as are left, of
\* the sequence the same search returns without a page, none and no error
\* when the page lies beyond the end; total is the length of that sequence.
Unpaged(f) == [k \in DOMAIN f \ {"page", "limit"} |-> f[k]]

Whole(p) == searchProducts(loaded'[p], Unpaged(op[p])).products

Skipped(f) == (f.page - 1) * f.limit

OnPage(n, f) ==
    IF n - Skipped(f) <= 0 THEN 0
    ELSE IF n - Skipped(f) < f.limit THEN n - Skipped(f) ELSE f.limit

PageIsSlice ==
    [][\A p \in Procs :
          (Returns(p, "search") /\ Paged(op[p])
              /\ op[p].page >= 1 /\ op[p].limit >= 1)
             => /\ outcome'[p] = "ok"
                /\ total'[p] = Len(Whole(p))
                /\ Len(ret'[p]) = OnPage(Len(Whole(p)), op[p])
                /\ \A i \in 1..Len(ret'[p]) :
                      ret'[p][i] = Whole(p)[Skipped(op[p]) + i]
      ]_vars

LastPageReached ==
    \E p \in Procs :
        /\ Done(p, "search") /\ outcome[p] = "ok"
        /\ Paged(op[p]) /\ op[p].page = 2 /\ op[p].limit = 3
        /\ Asked(op[p], "sortBy") /\ op[p].sortBy = "price"
        /\ op[p].sortOrder = "desc"
        /\ total[p] = 4
        /\ Len(ret[p]) = 1
        /\ ret[p][1].id = 3


\* C24: the statistics of a collection are total = the number of its
\* records, active + inactive = total, for every category the number of the
\* records of that category, active or not, averagePrice = the mean of all
\* prices rounded to the nearest hundredth (0 for the empty collection),
\* and lowStockProducts = the active records with stock < 10, in the order
\* of the collection.
Categories(arr) == {arr[i].category : i \in 1..Len(arr)}

CountOf(arr, k) == Cardinality({i \in 1..Len(arr) : arr[i].category = k})

Sum(arr) == reduce(arr, 0)

Nearest(avg, sum, n) ==
    /\ 2 * (avg * n - sum) <= n
    /\ 2 * (sum - avg * n) <= n

StatisticsOf(st, arr) ==
    /\ st.total = Len(arr)
    /\ st.active + st.inactive = st.total
    /\ st.active = Cardinality({i \in 1..Len(arr) : arr[i].isActive})
    /\ IF arr = <<>> THEN st.averagePrice = 0
       ELSE Nearest(st.averagePrice, Sum(arr), Len(arr))

CategoriesOf(st, arr) ==
    /\ DOMAIN st.categories = Categories(arr)
    /\ \A k \in Categories(arr) : st.categories[k] = Number(CountOf(arr, k))

StatisticsCount ==
    [][\A p \in Procs :
          /\ Returns(p, "stats.getStatistics")
                => /\ StatisticsOf(stats'[p], loaded'[p])
                   /\ CategoriesOf(stats'[p], loaded'[p])
          /\ Returns(p, "stats.getAllProducts")
                => /\ outcome'[p] = "ok"
                   /\ stats'[p] = stats[p]
                   /\ ret'[p] = SelectSeq(loaded'[p], LAMBDA r :
                                    r.isActive /\ r.stock < 10)
      ]_vars


\* C29: every stock adjustment that succeeds, also one that overlaps with
\* another, writes for its product the stock the data file holds at that
\* moment plus the amount added or minus the amount subtracted, so that
\* the stock after any number of them is the initial stock plus what was
\* added minus what was subtracted, and never negative.
Delta(c) == IF c.operation = "add" THEN c.quantity ELSE 0 - c.quantity

StockOf(f, id) == Content(f)[Position(Content(f), id)].stock

NoAdjustmentLost ==
    [][\A p \in Procs :
          (Completes(p, "stock") /\ Parseable(dataFile)
              /\ Has(Content(dataFile), op[p].id))
             => /\ Has(Content(dataFile'), op[p].id)
                /\ StockOf(dataFile', op[p].id)
                      = StockOf(dataFile, op[p].id) + Delta(op[p])
                /\ StockOf(dataFile', op[p].id) >= 0
      ]_vars



(***************************************************************************)
(* C25.  Validation precedes the controller.                               *)
(***************************************************************************)
\* The request the step of process p takes up, if it takes one up.
TakesUp(p) ==
    /\ pc[p] = "idle"
    /\ pc'[p] # "idle"
    /\ "request" \in DOMAIN op'[p]

HasPathId(r) == r.route # "GET /" /\ r.route # "POST /"

IdIsNoUUID(r) == HasPathId(r) /\ r.id = NotUUID

\* The body or the query of the request does not satisfy the route's schema.
FailsSchema(r) ==
    \/ /\ r.route = "POST /"
       /\ \/ \E k \in {"name", "description", "price", "category", "stock"} :
                k \notin DOMAIN r.body
          \/ r.body.name = ""
          \/ r.body.price <= 0
          \/ r.body.stock < 0
    \/ /\ r.route = "PUT /:id"
       /\ \/ "price" \in DOMAIN r.body /\ r.body.price <= 0
          \/ "stock" \in DOMAIN r.body /\ r.body.stock < 0
          \/ "name" \in DOMAIN r.body /\ r.body.name = ""
    \/ /\ r.route = "PATCH /:id/stock"
       /\ \/ "quantity" \notin DOMAIN r.body
          \/ r.body.quantity <= 0
          \/ r.body.operation \notin {"add", "subtract"}
    \/ /\ r.route = "GET /"
       /\ \/ "page" \in DOMAIN r.query /\ r.query.page < 1
          \/ "limit" \in DOMAIN r.query
                /\ (r.query.limit < 1 \/ r.query.limit > 100)

\* The request is answered with error e and the service is never called:
\* no storage call is pending, and the files and the cache are as before.
RejectedWith(p, e) ==
    /\ pc'[p] = "done"
    /\ outcome'[p] = e
    /\ cont'[p] = "none"
    /\ op'[p].name = "none"
    /\ disk' = disk
    /\ store' = store

\* C25 as stated: a request whose body or query fails the route's schema is
\* answered 422 and a request whose path id is not a UUID is answered 400,
\* in both cases without the service being invoked or the collection
\* changing.
ValidationAsStated ==
    [][\A p \in Procs :
          TakesUp(p) =>
             LET r == op'[p].request
             IN  /\ FailsSchema(r) => RejectedWith(p, "unprocessableEntity")
                 /\ IdIsNoUUID(r) => RejectedWith(p, "badRequest")]_vars

\* C25, amended: a request whose path id is not a UUID is answered 400, and
\* a request whose body or query fails the route's schema is answered 422
\* unless its path id is not a UUID (that check runs first and answers 400);
\* in both cases the service is not invoked and the collection is unchanged.
ValidationBeforeController ==
    [][\A p \in Procs :
          TakesUp(p) =>
             LET r == op'[p].request
             IN  /\ IdIsNoUUID(r) => RejectedWith(p, "badRequest")
                 /\ FailsSchema(r) /\ ~IdIsNoUUID(r)
                       => RejectedWith(p, "unprocessableEntity")]_vars

\* The second request, a PUT with a UUID in the path and a negative price in
\* the body, has been answered 422 with the files as they were at the start.
ValidationRejects ==
    /\ pc[1] = "done"
    /\ ops = MaxRequests
    /\ op[1].name = "none"
    /\ op[1].request.route = "PUT /:id"
    /\ op[1].request.id = 1
    /\ op[1].request.body = [price |-> 0 - 10]
    /\ outcome[1] = "unprocessableEntity"
    /\ disk \in InitDisks

==========================================================================
